---- MODULE Spec2Model ----
(***************************************************************************)
(* One render pass of the Milan housing dashboard (src/app.py): the        *)
(* dataset guard, the load, the column detection, the four sidebar         *)
(* filters, the sidebar export, and the Explore, Model and About tabs.     *)
(*                                                                         *)
(* Numbers are kept in HALF units: the integer h stands for the value      *)
(* h / 2, so 3.5 is 7 and 500000 is 1000000.  Halves are exact binary      *)
(* fractions, so the float arithmetic of pandas is exact on them.          *)
(* A statistic is a rational [n, d] (d > 0) standing for n / d.            *)
(* Text is a sequence of one-character strings.                            *)
(***************************************************************************)
EXTENDS Integers, Sequences, FiniteSets, TLC

VARIABLES
    pc,        \* position of the script in the pass
    fs,        \* the files beside the script: dataset, map, metrics, images
    df,        \* the loaded table: [columns, rows]
    loaded,    \* load_data has been invoked
    cols,      \* the seven detected columns (area_col, bed_col, ...)
    filtered,  \* the filtered frame: the index labels of its rows, in order
    incoming,  \* ghost: `filtered` as the latest filter block found it
    ctl,       \* the sidebar controls: shown or not, bounds, the selection
    err,       \* st.error of the dataset guard was shown
    sidebar,   \* "Rows after filters" and the CSV export
    kpi,       \* the four KPIs of the Explore tab
    explore,   \* the map section and the price histogram
    mm,        \* the model metrics row and its message
    shap,      \* the three SHAP sub-tabs
    about,     \* the About tab was rendered
    pickIn,    \* pick_col checked alone: its arguments
    pickOut    \* pick_col checked alone: its result

vars == <<pc, fs, df, loaded, cols, filtered, incoming, ctl, err, sidebar,
          kpi, explore, mm, shap, about, pickIn, pickOut>>

----------------------------------------------------------------------------
(* Bounds *)

MaxRows == 2

MaxCands == 2

----------------------------------------------------------------------------
(* Values *)

\* Python's None for an optional column name, and a bound name.
None == [some |-> FALSE, v |-> ""]

Some(c) == [some |-> TRUE, v |-> c]

\* A cell of the table (and a JSON value): a number, a string, or missing.
N(h) == [t |-> "num", v |-> h, s |-> <<>>]

T(chars) == [t |-> "str", v |-> 0, s |-> chars]

NaN == [t |-> "nan", v |-> 0, s |-> <<>>]

\* A numeric result that may be missing (float NaN, or a raised exception).
Missing == [ok |-> FALSE, v |-> 0]

Num(h) == [ok |-> TRUE, v |-> h]

Abs(n) == IF n < 0 THEN -n ELSE n

Digits == {"0", "1", "2", "3", "4", "5", "6", "7", "8", "9"}

DigitVal(c) ==
    CASE c = "0" -> 0 [] c = "1" -> 1 [] c = "2" -> 2 [] c = "3" -> 3
      [] c = "4" -> 4 [] c = "5" -> 5 [] c = "6" -> 6 [] c = "7" -> 7
      [] c = "8" -> 8 [] c = "9" -> 9

RECURSIVE DigitsVal(_)
DigitsVal(s) ==
    IF s = <<>> THEN 0
    ELSE 10 * DigitsVal(SubSeq(s, 1, Len(s) - 1)) + DigitVal(s[Len(s)])

AllDigits(s) == s # <<>> /\ \A i \in 1..Len(s) : s[i] \in Digits

\* The decimal literals the parser of pandas and of float() accepts, as far as
\* half units can hold them: [-]digits[.0|.5].  Any other text is no number.
ParseUnsigned(s) ==
    IF AllDigits(s) THEN Num(2 * DigitsVal(s))
    ELSE IF /\ Len(s) >= 3
            /\ s[Len(s) - 1] = "."
            /\ s[Len(s)] \in {"0", "5"}
            /\ AllDigits(SubSeq(s, 1, Len(s) - 2))
         THEN Num(2 * DigitsVal(SubSeq(s, 1, Len(s) - 2))
                  + (IF s[Len(s)] = "5" THEN 1 ELSE 0))
         ELSE Missing

ParseNum(s) ==
    IF s # <<>> /\ s[1] = "-"
    THEN LET r == ParseUnsigned(Tail(s))
         IN  IF r.ok THEN Num(-r.v) ELSE Missing
    ELSE ParseUnsigned(s)

\* pd.to_numeric(errors="coerce") on one element.
to_num(c) ==
    CASE c.t = "num" -> Num(c.v)
      [] c.t = "str" -> ParseNum(c.s)
      [] OTHER -> Missing

----------------------------------------------------------------------------
(* pick_col *)

RECURSIVE pick_col_last(_, _)
pick_col_last(columns, candidates) ==
    IF candidates = <<>> THEN None
    ELSE IF candidates[Len(candidates)] \in columns
         THEN Some(candidates[Len(candidates)])
         ELSE pick_col_last(columns, SubSeq(candidates, 1, Len(candidates) - 1))

RECURSIVE pick_col(_, _)
pick_col(columns, candidates) ==
    IF candidates = <<>> THEN None
    ELSE IF Head(candidates) \in columns THEN Some(Head(candidates))
         ELSE pick_col(columns, Tail(candidates))

AreaCandidates == <<"Area", "area", "neighborhood", "Neighbourhood", "quartiere", "Quartiere">>

BedCandidates == <<"Bedroom", "Bedrooms", "bedroom", "bedrooms", "beds">>

EnergyCandidates == <<"Energy_score", "energy_score", "energy", "EnergyScore", "energyScore">>

TransportCandidates == <<"transport", "Transport", "transport_score", "Transport_score">>

PriceCandidates == <<"price", "Price">>

PricePermCandidates == <<"priceperm", "price_per_m2", "price_per_sqm", "PricePerm", "price_per_meter">>

LnPriceCandidates == <<"ln_price", "lnprice", "Ln_price">>

DetectColumns(columns) ==
    [area      |-> pick_col(columns, AreaCandidates),
     bed       |-> pick_col(columns, BedCandidates),
     energy    |-> pick_col(columns, EnergyCandidates),
     transport |-> pick_col(columns, TransportCandidates),
     price     |-> pick_col(columns, PriceCandidates),
     priceperm |-> pick_col(columns, PricePermCandidates),
     ln_price  |-> pick_col(columns, LnPriceCandidates)]

NoColumns ==
    [area |-> None, bed |-> None, energy |-> None, transport |-> None,
     price |-> None, priceperm |-> None, ln_price |-> None]

----------------------------------------------------------------------------
(* Number formatting: Python's format specs ",.0f", ".3f" and ".4f" *)

\* The em-dash U+2014 the code returns for "no data".
DASH == "--"

RECURSIVE Pow10(_)
Pow10(p) == IF p = 0 THEN 1 ELSE 10 * Pow10(p - 1)

\* n / d (n >= 0, d > 0) rounded to an integer, ties to even.
RoundHalfEven(n, d) ==
    LET q == n \div d
        r == n % d
    IN  IF 2 * r < d THEN q
        ELSE IF 2 * r > d THEN q + 1
        ELSE IF q % 2 = 0 THEN q ELSE q + 1

RECURSIVE PadZeros(_, _)
PadZeros(n, width) ==
    IF width = 0 THEN "" ELSE PadZeros(n \div 10, width - 1) \o ToString(n % 10)

RECURSIVE Group(_)
Group(n) ==
    IF n < 1000 THEN ToString(n)
    ELSE Group(n \div 1000) \o "," \o PadZeros(n % 1000, 3)

Sign(q) == IF q.n < 0 THEN "-" ELSE ""

\* f"{x:,.0f}"
FormatGrouped0(q) == Sign(q) \o Group(RoundHalfEven(Abs(q.n), q.d))

\* f"{x:.<places>f}"
FormatFixed(q, places) ==
    LET scaled == RoundHalfEven(Abs(q.n) * Pow10(places), q.d)
    IN  Sign(q) \o ToString(scaled \div Pow10(places)) \o "."
            \o PadZeros(scaled % Pow10(places), places)

\* x > 10
GreaterThanTen(q) == q.n > 10 * q.d

\* f"{x:,.0f}" if x > 10 else f"{x:.3f}"
FormatStat(q) ==
    IF GreaterThanTen(q) THEN FormatGrouped0(q) ELSE FormatFixed(q, 3)

----------------------------------------------------------------------------
(* Frames: a view is the sequence of index labels of its rows *)

AllRows(table) == [i \in 1..Len(table.rows) |-> i]

Cell(i, col) == df.rows[i][col]

\* to_num(view[col]).dropna(): the numeric values of a column, in row order.
RECURSIVE NumVals(_, _)
NumVals(view, col) ==
    IF view = <<>> THEN <<>>
    ELSE LET x == to_num(Cell(Head(view), col))
         IN  (IF x.ok THEN <<x.v>> ELSE <<>>) \o NumVals(Tail(view), col)

SeqRange(s) == {s[i] : i \in 1..Len(s)}

MinOf(s) == CHOOSE x \in SeqRange(s) : \A y \in SeqRange(s) : x <= y

MaxOf(s) == CHOOSE x \in SeqRange(s) : \A y \in SeqRange(s) : x >= y

RECURSIVE SumOf(_)
SumOf(s) == IF s = <<>> THEN 0 ELSE Head(s) + SumOf(Tail(s))

\* s with its first occurrence of x removed.
RECURSIVE RemoveOne(_, _)
RemoveOne(s, x) ==
    IF Head(s) = x THEN Tail(s) ELSE <<Head(s)>> \o RemoveOne(Tail(s), x)

RECURSIVE SortAsc(_)
SortAsc(s) ==
    IF s = <<>> THEN <<>>
    ELSE <<MinOf(s)>> \o SortAsc(RemoveOne(s, MinOf(s)))

\* Series.mean() of values held in half units.
MeanOf(s) == [n |-> SumOf(s), d |-> 2 * Len(s)]

\* Series.median(): the middle value, or the mean of the two middle values.
MedianOf(s) ==
    LET o == SortAsc(s)
        k == Len(s)
    IN  IF k % 2 = 1 THEN [n |-> o[(k + 1) \div 2], d |-> 2]
        ELSE [n |-> o[k \div 2] + o[k \div 2 + 1], d |-> 4]

\* dropna() left out: one missing value empties the numeric set.
NumValsOrNothing(view, col) ==
    IF \A k \in 1..Len(view) : to_num(Cell(view[k], col)).ok
    THEN NumVals(view, col) ELSE <<>>

KpiVals(view, col) == NumVals(view, col)

safe_mean(view, col) ==
    IF col.some /\ col.v \in df.columns
    THEN LET v == KpiVals(view, col.v)
         IN  IF v # <<>> THEN FormatStat(MeanOf(v)) ELSE DASH
    ELSE DASH

safe_median(view, col) ==
    IF col.some /\ col.v \in df.columns
    THEN LET v == KpiVals(view, col.v)
         IN  IF v # <<>> THEN FormatStat(MedianOf(v)) ELSE DASH
    ELSE DASH

----------------------------------------------------------------------------
(* The filter blocks *)

\* filtered[area_col].dropna().unique(): the options of the multiselect.
\* Their sorted order and default_areas (the first 10 of more than 10) only set
\* the widget's first selection; the user may leave any subset selected.
AreaOptions(view, col) ==
    {Cell(view[k], col) : k \in {j \in 1..Len(view) : Cell(view[j], col).t # "nan"}}

\* An empty selection taken as "show nothing".
AreaMaskStrict(view, col, selected) ==
    LET Keep(i) == Cell(i, col) \in selected
    IN  SelectSeq(view, Keep)

\* A non-empty selection that also keeps the rows with no area.
AreaMaskWithMissing(view, col, selected) ==
    IF selected # {}
    THEN LET Keep(i) == Cell(i, col) \in selected \/ Cell(i, col).t = "nan"
         IN  SelectSeq(view, Keep)
    ELSE view

\* if selected_areas: filtered = filtered[filtered[area_col].isin(selected_areas)]
AreaMask(view, col, selected) ==
    IF selected # {}
    THEN LET Keep(i) == Cell(i, col) \in selected
         IN  SelectSeq(view, Keep)
    ELSE view

\* Series.between with the ends left out.
BetweenExclusive(x, lo, hi) == x.ok /\ lo < x.v /\ x.v < hi

\* Series.between(lo, hi): both ends inclusive, a missing value is False.
Between(x, lo, hi) == x.ok /\ lo <= x.v /\ x.v <= hi

\* filtered[to_num(filtered[col]).between(lo, hi)]
RangeMask(view, col, lo, hi) ==
    LET Keep(i) == Between(to_num(Cell(i, col)), lo, hi)
    IN  SelectSeq(view, Keep)

\* int(x): truncation toward zero; the result again in half units.
IntTrunc(h) == IF h >= 0 THEN 2 * (h \div 2) ELSE -(2 * ((-h) \div 2))

NoControl == [shown |-> FALSE, min |-> 0, max |-> 0, lo |-> 0, hi |-> 0]

\* bmin, bmax = int(b.min()), int(b.max())
BedBounds(b) == [min |-> IntTrunc(MinOf(b)), max |-> IntTrunc(MaxOf(b))]

\* emin, emax = float(e.min()), float(e.max())
FloatBounds(e) == [min |-> MinOf(e), max |-> MaxOf(e)]

\* The positions an integer slider can take between its bounds.
IntGrid(bounds) == {x \in bounds.min..bounds.max : x % 2 = 0}

\* The positions of a float slider that half units can hold.
FloatGrid(bounds) == bounds.min..bounds.max

----------------------------------------------------------------------------
(* The files beside the script *)

DATA_PATH == "data_final.xlsx"

MAP_HTML_PATH == "milan_area_map_lnprice.html"

METRICS_JSON_PATH == "model_metrics.json"

SHAP_SUMMARY_BAR_PNG == "shap_summary_bar.png"

SHAP_BEESWARM_PNG == "shap_beeswarm.png"

SHAP_DEP_TRANSPORT_PNG == "shap_dependence_transport.png"

ShapImages == {SHAP_SUMMARY_BAR_PNG, SHAP_BEESWARM_PNG, SHAP_DEP_TRANSPORT_PNG}

\* os.path.isfile(path)
exists(path) == path \in fs.present

\* The dataset guard with its test lost: the pass never halts.
NeverMissing == FALSE

\* if not exists(DATA_PATH)
DatasetMissing == ~exists(DATA_PATH)

\* float(x) on a JSON value: a number, a numeric string; None and other text raise.
Float(c) ==
    CASE c.t = "num" -> Num(c.v)
      [] c.t = "str" -> ParseNum(c.s)
      [] OTHER -> Missing

\* metrics.get(key, 0)
Get(obj, key) == IF key \in DOMAIN obj THEN obj[key] ELSE N(0)

Fmt4(x) == FormatFixed([n |-> x.v, d |-> 2], 4)

\* Each KPI rendered as soon as its own field is parsed, each failure apart.
MetricsRowPerField ==
    IF ~exists(METRICS_JSON_PATH)
    THEN [m1 |-> DASH, m2 |-> DASH, m3 |-> DASH, note |-> "info"]
    ELSE IF fs.metrics.kind # "object"
    THEN [m1 |-> DASH, m2 |-> DASH, m3 |-> DASH, note |-> "warning"]
    ELSE LET rmse == Float(Get(fs.metrics.obj, "rmse"))
             mae  == Float(Get(fs.metrics.obj, "mae"))
             r2   == Float(Get(fs.metrics.obj, "r2"))
         IN  [m1 |-> IF rmse.ok THEN Fmt4(rmse) ELSE DASH,
              m2 |-> IF mae.ok THEN Fmt4(mae) ELSE DASH,
              m3 |-> IF r2.ok THEN Fmt4(r2) ELSE DASH,
              note |-> IF rmse.ok /\ mae.ok /\ r2.ok THEN "caption" ELSE "warning"]

\* The metrics block: json.load raises on invalid JSON, .get on a value that is
\* no object, float() on a field that is no number; one except catches them all.
MetricsRow ==
    IF ~exists(METRICS_JSON_PATH)
    THEN [m1 |-> DASH, m2 |-> DASH, m3 |-> DASH, note |-> "info"]
    ELSE IF fs.metrics.kind # "object"
    THEN [m1 |-> DASH, m2 |-> DASH, m3 |-> DASH, note |-> "warning"]
    ELSE LET rmse == Float(Get(fs.metrics.obj, "rmse"))
             mae  == Float(Get(fs.metrics.obj, "mae"))
             r2   == Float(Get(fs.metrics.obj, "r2"))
         IN  IF rmse.ok /\ mae.ok /\ r2.ok
             THEN [m1 |-> Fmt4(rmse), m2 |-> Fmt4(mae), m3 |-> Fmt4(r2),
                   note |-> "caption"]
             ELSE [m1 |-> DASH, m2 |-> DASH, m3 |-> DASH, note |-> "warning"]

ShapRow ==
    [p \in ShapImages |-> IF exists(p) THEN "image" ELSE "info"]

----------------------------------------------------------------------------
(* The inputs *)

SeqsUpTo(S, n) == UNION {[1..k -> S] : k \in 0..n}

\* The rows over a family: a family gives each column the cells it may hold.
RowsOf(fam) ==
    {r \in [DOMAIN fam -> UNION {fam[c] : c \in DOMAIN fam}] :
        \A c \in DOMAIN fam : r[c] \in fam[c]}

TablesOf(fam) ==
    {[columns |-> DOMAIN fam, rows |-> rs] : rs \in SeqsUpTo(RowsOf(fam), MaxRows)}

\* Listings: two areas, whole bedroom counts, prices (500000 and 15).
FamListings ==
    [Area    |-> {T(<<"X">>), T(<<"Y">>), NaN},
     Bedroom |-> {N(4), N(10)},
     price   |-> {N(1000000), N(30)}]

\* Bedroom values of every kind: 2, 3.5, -1.5, "3", "n/a", missing.
FamBedrooms ==
    [Bedroom |-> {N(4), N(7), N(-3), T(<<"3">>), T(<<"n", "/", "a">>), NaN}]

\* Scores: 0.5, 1.0, "1.5", "hi", missing; 1.5, 2.0, missing.
FamScores ==
    [Energy_score |-> {N(1), N(2), T(<<"1", ".", "5">>), T(<<"h", "i">>), NaN},
     Transport    |-> {N(3), N(4), NaN}]

\* Prices 1234, -1234, 10, 10.5, "n/a"; log-prices 12.5, -0.5, missing.
FamPrices ==
    [Price    |-> {N(2468), N(-2468), N(20), N(21), T(<<"n", "/", "a">>)},
     ln_price |-> {N(25), N(-1), NaN}]

\* A Quartiere column, and prices per square metre 1234567, 11.5, 0.5.
FamQuartiere ==
    [Quartiere    |-> {T(<<"Q">>), NaN},
     price_per_m2 |-> {N(2469134), N(23), N(1)}]

\* A table none of whose columns is a candidate name.
FamForeign ==
    [AREA |-> {T(<<"X">>)}, PRICE |-> {N(30)}]

Tables ==
    TablesOf(FamListings) \cup TablesOf(FamBedrooms) \cup TablesOf(FamScores)
        \cup TablesOf(FamPrices) \cup TablesOf(FamQuartiere) \cup TablesOf(FamForeign)

\* The example of the specification's end-to-end scenario.
ExampleTable ==
    [columns |-> {"Area", "Bedroom", "price"},
     rows |-> << [Area |-> T(<<"X">>), Bedroom |-> N(4), price |-> N(1000000)],
                 [Area |-> T(<<"Y">>), Bedroom |-> N(10), price |-> N(30)] >>]

OptionalFiles == {MAP_HTML_PATH, METRICS_JSON_PATH} \cup ShapImages

MetricsKeys == {"rmse", "mae", "r2"}

\* A metrics field: 1.5, "1.5", "x", null.
FieldValues == {N(3), T(<<"1", ".", "5">>), T(<<"x">>), NaN}

MetricsObjects == UNION {[K -> FieldValues] : K \in SUBSET MetricsKeys}

GoodMetrics == [kind |-> "object", obj |-> [k \in MetricsKeys |-> N(3)]]

MetricsContents ==
    {[kind |-> "invalid", obj |-> <<>>], [kind |-> "array", obj |-> <<>>]}
        \cup {[kind |-> "object", obj |-> o] : o \in MetricsObjects}

\* A table with one price column, for the passes that vary the files.
PriceTable ==
    [columns |-> {"price"}, rows |-> << [price |-> N(1000000)] >>]

NoTable == [columns |-> {}, rows |-> <<>>]

\* Every file present and well-formed, the dataset any table.
FileSystemsByTable ==
    {[present |-> {DATA_PATH} \cup OptionalFiles, data |-> t, metrics |-> GoodMetrics] :
        t \in Tables}

\* One dataset, every combination of present files and metrics contents
\* (an absent file has no content: NoTable, and an unread metrics value).
FileSystemsByFiles ==
    {f \in [present : SUBSET ({DATA_PATH} \cup OptionalFiles),
            data    : {PriceTable, NoTable},
            metrics : MetricsContents] :
        /\ f.data = (IF DATA_PATH \in f.present THEN PriceTable ELSE NoTable)
        /\ METRICS_JSON_PATH \notin f.present => f.metrics = GoodMetrics}

----------------------------------------------------------------------------
(* The render pass *)

NoAreaControl == [shown |-> FALSE, options |-> {}, sel |-> {}]

InitPass ==
    /\ pc = "check"
    /\ df = NoTable
    /\ loaded = FALSE
    /\ cols = NoColumns
    /\ filtered = <<>>
    /\ incoming = <<>>
    /\ ctl = [area |-> NoAreaControl, bed |-> NoControl,
              energy |-> NoControl, transport |-> NoControl]
    /\ err = FALSE
    /\ sidebar = [shown |-> FALSE, rows |-> "", csv |-> <<>>]
    /\ kpi = [shown |-> FALSE, listings |-> "", medPrice |-> "", medPpm |-> "",
              meanLn |-> ""]
    /\ explore = [shown |-> FALSE, preview |-> <<>>, map |-> "", hist |-> ""]
    /\ mm = [m1 |-> "", m2 |-> "", m3 |-> "", note |-> ""]
    /\ shap = [p \in ShapImages |-> ""]
    /\ about = FALSE

NoPick ==
    /\ pickIn = [columns |-> {}, candidates |-> <<>>]
    /\ pickOut = [done |-> FALSE, res |-> None]

Init ==
    /\ InitPass
    /\ NoPick
    /\ fs \in FileSystemsByTable \cup FileSystemsByFiles

passVars == <<df, loaded, cols, filtered, incoming, ctl, sidebar, kpi, explore,
              mm, shap, about>>

\* Lines 63-65: the dataset guard; st.stop() ends the pass.
CheckData ==
    /\ pc = "check"
    /\ IF DatasetMissing
       THEN err' = TRUE /\ pc' = "stopped"
       ELSE err' = err /\ pc' = "load"
    /\ UNCHANGED <<fs, passVars, pickIn, pickOut>>

\* Line 67: df = load_data(DATA_PATH)
LoadData ==
    /\ pc = "load"
    /\ df' = fs.data
    /\ loaded' = TRUE
    /\ pc' = "detect"
    /\ UNCHANGED <<fs, cols, filtered, incoming, ctl, err, sidebar, kpi, explore,
                   mm, shap, about, pickIn, pickOut>>

\* Lines 70-77: the seven pick_col calls.
Detect ==
    /\ pc = "detect"
    /\ cols' = DetectColumns(df.columns)
    /\ pc' = "area"
    /\ UNCHANGED <<fs, df, loaded, filtered, incoming, ctl, err, sidebar, kpi,
                   explore, mm, shap, about, pickIn, pickOut>>

\* Lines 84-92: filtered = df.copy(), then the area multiselect.
FilterArea ==
    /\ pc = "area"
    /\ incoming' = AllRows(df)
    /\ IF cols.area.some
       THEN \E selected \in SUBSET AreaOptions(AllRows(df), cols.area.v) :
                /\ ctl' = [ctl EXCEPT !.area =
                              [shown |-> TRUE,
                               options |-> AreaOptions(AllRows(df), cols.area.v),
                               sel |-> selected]]
                /\ filtered' = AreaMask(AllRows(df), cols.area.v, selected)
       ELSE /\ ctl' = ctl
            /\ filtered' = AllRows(df)
    /\ pc' = "bed"
    /\ UNCHANGED <<fs, df, loaded, cols, err, sidebar, kpi, explore, mm, shap,
                   about, pickIn, pickOut>>

\* A range block: the slider is built when the column is detected, holds a
\* number and its bounds differ; the user leaves it at any lo <= hi.
RangeBlock(role, col, int) ==
    /\ incoming' = filtered
    /\ IF col.some /\ NumVals(filtered, col.v) # <<>>
       THEN LET x == NumVals(filtered, col.v)
                bounds == IF int THEN BedBounds(x) ELSE FloatBounds(x)
                grid == IF int THEN IntGrid(bounds) ELSE FloatGrid(bounds)
            IN  IF bounds.min # bounds.max
                THEN \E lo, hi \in grid :
                        /\ lo <= hi
                        /\ ctl' = [ctl EXCEPT ![role] =
                                      [shown |-> TRUE, min |-> bounds.min,
                                       max |-> bounds.max, lo |-> lo, hi |-> hi]]
                        /\ filtered' = RangeMask(filtered, col.v, lo, hi)
                ELSE ctl' = ctl /\ filtered' = filtered
       ELSE ctl' = ctl /\ filtered' = filtered

\* Lines 95-101
FilterBedroom ==
    /\ pc = "bed"
    /\ RangeBlock("bed", cols.bed, TRUE)
    /\ pc' = "energy"
    /\ UNCHANGED <<fs, df, loaded, cols, err, sidebar, kpi, explore, mm, shap,
                   about, pickIn, pickOut>>

\* Lines 104-110
FilterEnergy ==
    /\ pc = "energy"
    /\ RangeBlock("energy", cols.energy, FALSE)
    /\ pc' = "transport"
    /\ UNCHANGED <<fs, df, loaded, cols, err, sidebar, kpi, explore, mm, shap,
                   about, pickIn, pickOut>>

\* Lines 113-119
FilterTransport ==
    /\ pc = "transport"
    /\ RangeBlock("transport", cols.transport, FALSE)
    /\ pc' = "sidebar"
    /\ UNCHANGED <<fs, df, loaded, cols, err, sidebar, kpi, explore, mm, shap,
                   about, pickIn, pickOut>>

\* Lines 121-131: the row count and the CSV of the filtered frame.
Sidebar ==
    /\ pc = "sidebar"
    /\ sidebar' = [shown |-> TRUE, rows |-> Group(Len(filtered)), csv |-> filtered]
    /\ pc' = "explore"
    /\ UNCHANGED <<fs, df, loaded, cols, filtered, incoming, ctl, err, kpi,
                   explore, mm, shap, about, pickIn, pickOut>>

PreviewRows == 50

Head50(view) == SubSeq(view, 1, IF Len(view) < PreviewRows THEN Len(view) ELSE PreviewRows)

\* Lines 171-177
Histogram(view, col) ==
    IF col.some /\ col.v \in df.columns
    THEN IF Len(NumVals(view, col.v)) > 0 THEN "chart" ELSE "info"
    ELSE "none"

\* Lines 143-177: the KPI row, the preview, the map, the histogram.
ExploreTab ==
    /\ pc = "explore"
    /\ kpi' = [shown    |-> TRUE,
               listings |-> Group(Len(filtered)),
               medPrice |-> safe_median(filtered, cols.price),
               medPpm   |-> safe_median(filtered, cols.priceperm),
               meanLn   |-> safe_mean(filtered, cols.ln_price)]
    /\ explore' = [shown   |-> TRUE,
                   preview |-> Head50(filtered),
                   map     |-> IF exists(MAP_HTML_PATH) THEN "html" ELSE "warning",
                   hist    |-> Histogram(filtered, cols.price)]
    /\ pc' = "model"
    /\ UNCHANGED <<fs, df, loaded, cols, filtered, incoming, ctl, err, sidebar,
                   mm, shap, about, pickIn, pickOut>>

\* Lines 183-234: the metrics row and the three SHAP sub-tabs.
ModelTab ==
    /\ pc = "model"
    /\ mm' = MetricsRow
    /\ shap' = ShapRow
    /\ pc' = "about"
    /\ UNCHANGED <<fs, df, loaded, cols, filtered, incoming, ctl, err, sidebar,
                   kpi, explore, about, pickIn, pickOut>>

\* Lines 240-256
AboutTab ==
    /\ pc = "about"
    /\ about' = TRUE
    /\ pc' = "done"
    /\ UNCHANGED <<fs, df, loaded, cols, filtered, incoming, ctl, err, sidebar,
                   kpi, explore, mm, shap, pickIn, pickOut>>

Next ==
    \/ CheckData
    \/ LoadData
    \/ Detect
    \/ FilterArea
    \/ FilterBedroom
    \/ FilterEnergy
    \/ FilterTransport
    \/ Sidebar
    \/ ExploreTab
    \/ ModelTab
    \/ AboutTab

Spec == Init /\ [][Next]_vars

----------------------------------------------------------------------------
(* pick_col alone, over column sets and candidate lists *)

Names == {"Area", "area", "AREA", "Quartiere", "price"}

CandidateLists ==
    SeqsUpTo(Names, MaxCands)
        \cup {AreaCandidates, BedCandidates, EnergyCandidates, TransportCandidates,
              PriceCandidates, PricePermCandidates, LnPriceCandidates}

InitPick ==
    /\ InitPass
    /\ fs = [present |-> {}, data |-> NoTable, metrics |-> GoodMetrics]
    /\ pickIn \in [columns : SUBSET Names, candidates : CandidateLists]
    /\ pickOut = [done |-> FALSE, res |-> None]

Pick ==
    /\ ~pickOut.done
    /\ pickOut' = [done |-> TRUE, res |-> pick_col(pickIn.columns, pickIn.candidates)]
    /\ UNCHANGED <<pc, fs, passVars, err, pickIn>>

NextPick == Pick

SpecPick == InitPick /\ [][NextPick]_vars

----------------------------------------------------------------------------
(* The claims *)

Range(view) == {view[k] : k \in 1..Len(view)}

\* An order-preserving selection of the table's rows, none twice.
IsSubsequence(view) ==
    \A k \in 1..Len(view) :
        /\ view[k] \in 1..Len(df.rows)
        /\ \A j \in 1..(k - 1) : view[j] < view[k]

AfterFilters == {"sidebar", "explore", "model", "about", "done"}

ViewExists == {"bed", "energy", "transport"} \cup AfterFilters

\* C1: pick_col returns the earliest candidate, in list order, that is exactly
\* (case-sensitively) a column name, and None exactly when no candidate is one.
C1_PickFirstMatch ==
    pickOut.done =>
        LET c == pickIn.candidates
            hits == {i \in 1..Len(c) : c[i] \in pickIn.columns}
        IN  IF hits = {}
            THEN pickOut.res = None
            ELSE \E i \in hits :
                    /\ \A j \in hits : i <= j
                    /\ pickOut.res = Some(c[i])

\* C1 witness: columns ["Quartiere", "price"] bind area to "Quartiere".
C1_Witness ==
    /\ pickOut.done
    /\ pickIn.columns = {"Quartiere", "price"}
    /\ pickIn.candidates = AreaCandidates
    /\ pickOut.res = Some("Quartiere")

NoConstraint ==
    /\ ctl.area.sel = {}
    /\ ~ctl.bed.shown
    /\ ~ctl.energy.shown
    /\ ~ctl.transport.shown

\* C2: the filtered view is an order-preserving subsequence of the table's
\* rows (no foreign row, none twice, none out of order), and it is the whole
\* table when no constraint is active.
C2_FilteredIsSubsequence ==
    pc \in ViewExists =>
        /\ IsSubsequence(filtered)
        /\ Len(filtered) <= Len(df.rows)
        /\ NoConstraint => filtered = AllRows(df)

\* C2 witness: a two-row table, the area control shown with nothing selected,
\* no slider shown, and both rows in the view after the last filter.
C2_Witness ==
    /\ pc = "sidebar"
    /\ NoConstraint
    /\ ctl.area.shown
    /\ ctl.area.options # {}
    /\ Len(df.rows) = 2
    /\ filtered = <<1, 2>>

\* The rule of a shown range control: of the incoming view, exactly the rows
\* whose value coerces to a number within [lo, hi] stay, in their order.
RangeRule(role, col) ==
    ctl[role].shown =>
        /\ IsSubsequence(filtered)
        /\ \A i \in Range(incoming) :
              i \in Range(filtered) <=>
                  LET x == to_num(Cell(i, col.v))
                  IN  x.ok /\ ctl[role].lo <= x.v /\ x.v <= ctl[role].hi
        /\ Range(filtered) \subseteq Range(incoming)

\* C3: with the control of a numeric role shown and [lo, hi] selected, a row
\* of the incoming view passes iff its value coerces to a number and
\* lo <= value <= hi, both ends included; a missing value never passes.
C3_RangeInclusive ==
    /\ pc = "energy" => RangeRule("bed", cols.bed)
    /\ pc = "transport" => RangeRule("energy", cols.energy)
    /\ pc = "sidebar" => RangeRule("transport", cols.transport)

\* C3 witness: rows {Bedroom: 2} and {Bedroom: 5}, Bedroom in [2, 3] selected,
\* exactly the first row left.
C3_Witness ==
    /\ pc = "energy"
    /\ df = ExampleTable
    /\ ctl.area.sel = {}
    /\ ctl.bed.shown
    /\ ctl.bed.lo = 4
    /\ ctl.bed.hi = 6
    /\ filtered = <<1>>

\* C4: with the area control shown, an empty selection passes every row on,
\* the rows with no area too; a non-empty one keeps exactly the rows whose
\* area is selected.
C4_AreaSelection ==
    (pc = "bed" /\ ctl.area.shown) =>
        /\ IsSubsequence(filtered)
        /\ ctl.area.sel = {} => filtered = incoming
        /\ ctl.area.sel # {} =>
              \A i \in Range(incoming) :
                  i \in Range(filtered) <=> Cell(i, cols.area.v) \in ctl.area.sel

\* C4 witness: nothing selected, and a row with no area among those passed on.
C4_Witness ==
    /\ pc = "bed"
    /\ ctl.area.shown
    /\ ctl.area.options # {}
    /\ ctl.area.sel = {}
    /\ \E i \in Range(filtered) : Cell(i, cols.area.v).t = "nan"

\* The rule as the specification words it: by magnitude.
FormatByMagnitude(q) ==
    IF Abs(q.n) > 10 * q.d THEN FormatGrouped0(q) ELSE FormatFixed(q, 3)

HasNumbers(col) ==
    col.some /\ \E k \in 1..Len(filtered) : to_num(Cell(filtered[k], col.v)).ok

\* C5: a statistic over a non-empty numeric set is shown with no decimals and
\* thousands separators if |value| > 10, with three decimals otherwise.
C5_FormatByMagnitude ==
    kpi.shown =>
        /\ HasNumbers(cols.price) =>
              kpi.medPrice = FormatByMagnitude(MedianOf(NumVals(filtered, cols.price.v)))
        /\ HasNumbers(cols.priceperm) =>
              kpi.medPpm = FormatByMagnitude(MedianOf(NumVals(filtered, cols.priceperm.v)))
        /\ HasNumbers(cols.ln_price) =>
              kpi.meanLn = FormatByMagnitude(MeanOf(NumVals(filtered, cols.ln_price.v)))

\* C5 failing input: a Price column holding only -1234.  The code tests
\* value > 10 and shows "-1234.000"; by magnitude it would be "-1,234".
C5_Failing ==
    /\ kpi.shown
    /\ cols.price = Some("Price")
    /\ Len(df.rows) = 1
    /\ df.rows[1]["Price"] = N(-2468)
    /\ filtered = <<1>>
    /\ kpi.medPrice = "-1234.000"
    /\ FormatByMagnitude(MedianOf(NumVals(filtered, "Price"))) = "-1,234"

\* C6: a KPI is the "no data" marker exactly when its column is not detected or
\* holds no value of the view that coerces to a number; each KPI by its own
\* column, whatever the others show.
C6_NoDataIffNoNumbers ==
    kpi.shown =>
        /\ kpi.medPrice = DASH <=> ~HasNumbers(cols.price)
        /\ kpi.medPpm = DASH <=> ~HasNumbers(cols.priceperm)
        /\ kpi.meanLn = DASH <=> ~HasNumbers(cols.ln_price)

\* C6 witness: the price column is detected and holds no number, so the median
\* price is the marker, and the mean log-price of the same pass is a number.
C6_Witness ==
    /\ kpi.shown
    /\ cols.price.some
    /\ Len(filtered) = 2
    /\ kpi.medPrice = DASH
    /\ kpi.medPpm = DASH
    /\ kpi.meanLn = "12"

Untouched ==
    /\ ~loaded
    /\ df = NoTable
    /\ cols = NoColumns
    /\ filtered = <<>>
    /\ ~ctl.area.shown /\ ~ctl.bed.shown /\ ~ctl.energy.shown /\ ~ctl.transport.shown
    /\ ~sidebar.shown
    /\ ~kpi.shown
    /\ ~explore.shown
    /\ mm.note = ""
    /\ \A p \in ShapImages : shap[p] = ""
    /\ ~about

\* C7: with no dataset file the pass shows the error and halts before the
\* load, and nothing after it runs; the pass halts for no other reason, and
\* with the dataset present and an optional file missing every step short of
\* the end has a next one.
C7_DatasetGuard ==
    /\ (DATA_PATH \notin fs.present /\ pc # "check") =>
          (pc = "stopped" /\ err /\ Untouched)
    /\ DATA_PATH \in fs.present => (pc # "stopped" /\ ~err)
    /\ (/\ DATA_PATH \in fs.present
        /\ OptionalFiles \ fs.present # {}
        /\ pc # "done") => ENABLED Next

\* C7 witness: the pass halted on the missing dataset with every optional
\* file present.
C7_Witness ==
    /\ pc = "stopped"
    /\ err
    /\ fs.present = OptionalFiles

Floatable(c) == c.t = "num" \/ (c.t = "str" /\ ParseNum(c.s).ok)

\* C8: the three model KPIs are all numbers (file present and parseable, an
\* absent field shown as 0) or all the marker: with the info message when the
\* file is missing, with the warning when it is malformed; the SHAP tabs and
\* the About tab render all the same.
C8_MetricsAllOrNone ==
    pc \in {"about", "done"} =>
        LET present == METRICS_JSON_PATH \in fs.present
            obj == fs.metrics.obj
            parseable ==
                /\ fs.metrics.kind = "object"
                /\ \A k \in MetricsKeys \cap DOMAIN obj : Floatable(obj[k])
            markers == mm.m1 = DASH /\ mm.m2 = DASH /\ mm.m3 = DASH
            numbers == DASH \notin {mm.m1, mm.m2, mm.m3}
        IN  /\ (present /\ parseable) =>
                  /\ numbers /\ mm.note = "caption"
                  /\ "rmse" \notin DOMAIN obj => mm.m1 = "0.0000"
                  /\ "mae" \notin DOMAIN obj => mm.m2 = "0.0000"
                  /\ "r2" \notin DOMAIN obj => mm.m3 = "0.0000"
            /\ ~present => (markers /\ mm.note = "info")
            /\ (present /\ ~parseable) => (markers /\ mm.note = "warning")
            /\ \A p \in ShapImages :
                  shap[p] = (IF p \in fs.present THEN "image" ELSE "info")
            /\ pc = "done" => about

\* C8 witness: rmse is a number and mae is not: three markers, the warning,
\* and the pass rendered to its end.
C8_Witness ==
    /\ pc = "done"
    /\ METRICS_JSON_PATH \in fs.present
    /\ fs.metrics.kind = "object"
    /\ DOMAIN fs.metrics.obj = MetricsKeys
    /\ fs.metrics.obj["rmse"] = N(3)
    /\ fs.metrics.obj["mae"] = T(<<"x">>)
    /\ mm = [m1 |-> DASH, m2 |-> DASH, m3 |-> DASH, note |-> "warning"]
    /\ about

\* The bounds of a range control as the specification words them.
BoundsRule(role, col) ==
    col.some =>
        LET x == NumVals(incoming, col.v)
        IN  /\ ctl[role].shown =>
                  (ctl[role].min = MinOf(x) /\ ctl[role].max = MaxOf(x))
            /\ (x = <<>> \/ MinOf(x) = MaxOf(x)) =>
                  (~ctl[role].shown /\ filtered = incoming)

\* C9: the bounds of a range control are the minimum and the maximum of the
\* numeric values of its column in the view it is built on; with min = max, or
\* with no number, there is no control and no constraint.
C9_BoundsAreMinMax ==
    /\ pc = "energy" => BoundsRule("bed", cols.bed)
    /\ pc = "transport" => BoundsRule("energy", cols.energy)
    /\ pc = "sidebar" => BoundsRule("transport", cols.transport)

\* C9 failing input: a Bedroom column holding 2 and 3.5.  The slider is built
\* on (2, 3), not on the column's minimum and maximum (2, 3.5).
C9_Failing ==
    /\ pc = "energy"
    /\ df.columns = {"Bedroom"}
    /\ Len(df.rows) = 2
    /\ df.rows[1]["Bedroom"] = N(4)
    /\ df.rows[2]["Bedroom"] = N(7)
    /\ ctl.bed.shown
    /\ ctl.bed.min = 4
    /\ ctl.bed.max = 6
    /\ MaxOf(NumVals(incoming, "Bedroom")) = 7

\* C10: the bedroom slider left at its default (bmin, bmax) keeps every row
\* whose bedroom value coerces to a number and removes only the others.
C10_DefaultRangeKeepsNumbers ==
    (/\ pc = "energy"
     /\ ctl.bed.shown
     /\ ctl.bed.lo = ctl.bed.min
     /\ ctl.bed.hi = ctl.bed.max) =>
        \A i \in Range(incoming) :
            i \in Range(filtered) <=> to_num(Cell(i, cols.bed.v)).ok

\* C10 failing input: a Bedroom column holding 2 and 3.5, the slider left at
\* its default (2, 3).  The row with 3.5 bedrooms is removed.
C10_Failing ==
    /\ pc = "energy"
    /\ df.columns = {"Bedroom"}
    /\ Len(df.rows) = 2
    /\ df.rows[1]["Bedroom"] = N(4)
    /\ df.rows[2]["Bedroom"] = N(7)
    /\ ctl.bed = [shown |-> TRUE, min |-> 4, max |-> 6, lo |-> 4, hi |-> 6]
    /\ incoming = <<1, 2>>
    /\ filtered = <<1>>

====
